---- MODULE Spec2Model ----
(***************************************************************************)
(* Two-stage skin-lesion cascade of dermai-api: Model1Predictor,           *)
(* Model2Predictor and EnsembleSkinLesionPredictor (predictor.py), the     *)
(* label tables of config.py, and the /predict handler of main.py.         *)
(*                                                                         *)
(* A probability is an integer number of mass units: the float p is the    *)
(* integer p * Units.  A score vector is a sequence of such integers whose *)
(* sum is Units (a softmax output).  The two neural scorers are black      *)
(* boxes: what model.predict returns for a request is an input.            *)
(***************************************************************************)
EXTENDS Integers, Sequences, FiniteSets, Bags, TLC

\* Bounds of the model.
Units == 3
MaxExtra == 1

\* src/config.py
THREE_PARTITION_CLASSES == <<"healthy", "malignant", "benign", "non-neoplastic">>

MALIGNANT_CLASSES ==
    <<"actinic_keratosis", "basal_cell_carcinoma", "kaposi_sarcoma",
      "melanoma", "mycosis_fungoides", "squamous_cell_carcinoma">>

KERATINOCYTE_CLASSES ==
    <<"actinic_keratosis", "basal_cell_carcinoma", "squamous_cell_carcinoma">>

\* The keys of CLASSES_INFO.
CLASSES_INFO ==
    {"healthy", "non_cancerous_lesion", "benign", "non-neoplastic", "malignant",
     "melanoma", "kaposi_sarcoma", "mycosis_fungoides", "keratinocytes",
     "actinic_keratosis", "basal_cell_carcinoma", "squamous_cell_carcinoma"}

Range(s) == {s[i] : i \in DOMAIN s}

\* Python values that are not score vectors.
None == [tag |-> "none"]
Raised(exc) == [tag |-> "raise", exc |-> exc]
Returned(v) == [tag |-> "ok", val |-> v]

\* A scorer that was not invoked, a method that was not called.
NotInvoked == [kind |-> "not_invoked"]
NotCalled == [tag |-> "not_called"]

\* The preprocessed image representation of a request (image_array).
IMAGE_ARRAY == "image_array"

----------------------------------------------------------------------------
\* Score vectors: all sequences of n naturals that sum to t.
RECURSIVE Dists(_, _)
Dists(n, t) ==
    IF n = 0
    THEN (IF t = 0 THEN {<< >>} ELSE {})
    ELSE UNION {{<<h>> \o r : r \in Dists(n - 1, t - h)} : h \in 0..t}

Lengths(n) == {k \in (n - MaxExtra)..(n + MaxExtra) : k >= 1}

\* What the general model can return as one output row: well-formed and
\* malformed (shorter, longer) distributions.
Vectors1 == UNION {Dists(k, Units) : k \in Lengths(Len(THREE_PARTITION_CLASSES))}

\* What the subtype model can return as one output row.
Vectors2 == UNION {Dists(k, Units) : k \in Lengths(Len(MALIGNANT_CLASSES))}

\* Mutant of ArgMax: among equal maxima the last index wins.
ArgMaxLast(v) ==
    CHOOSE i \in DOMAIN v :
        /\ \A j \in DOMAIN v : v[j] <= v[i]
        /\ \A j \in DOMAIN v : j > i => v[j] < v[i]

\* np.argmax: the first index (1-based here) holding the maximum.
ArgMax(v) ==
    CHOOSE i \in DOMAIN v :
        /\ \A j \in DOMAIN v : v[j] <= v[i]
        /\ \A j \in DOMAIN v : j < i => v[j] < v[i]

----------------------------------------------------------------------------
\* One call of a collaborator, in the order the request made it.
Call(fn, arg) == [fn |-> fn, arg |-> arg]

\* What model.predict can return (the scorer is a black box):
\*   extract_raise  the ViT feature extractor raised
\*   raise          model.predict raised
\*   array          one array, of one batch row
\*   none_row       an indexable whose entry 0 is None
\*   list           a list of output heads, each of one batch row
\*   dict           a dict of named output heads, in insertion order
ExtractRaise == [kind |-> "extract_raise"]
PredictRaise == [kind |-> "raise"]
NoneRow == [kind |-> "none_row"]
Array(v) == [kind |-> "array", row |-> v]
List(vs) == [kind |-> "list", items |-> vs]
Dict(ks, vs) == [kind |-> "dict", keys |-> ks, vals |-> vs]

\* Model1Predictor.preprocess_image on what /predict hands it:
\* a PIL image that resizes, or one whose pixel data cannot be loaded.
preprocess_image(image) ==
    IF image = "ok" THEN Returned(IMAGE_ARRAY) ELSE None

\* Model1Predictor.predict, the choice of three_part_probs.
ThreePartProbs(predictions) ==
    CASE predictions.kind = "list" ->
            IF Len(predictions.items) >= 2 THEN Returned(predictions.items[2])
            ELSE IF Len(predictions.items) = 1 THEN Returned(predictions.items[1])
            ELSE Raised("IndexError")
      [] predictions.kind = "dict" ->
            IF \E i \in DOMAIN predictions.keys :
                   predictions.keys[i] = "three_part_output"
            THEN Returned(predictions.vals[
                     CHOOSE i \in DOMAIN predictions.keys :
                         predictions.keys[i] = "three_part_output"])
            ELSE IF Len(predictions.keys) > 0 THEN Returned(predictions.vals[1])
            ELSE None
      [] predictions.kind = "array" -> Returned(predictions.row)
      [] OTHER -> None

\* Mutant of Model1Results: an argmax beyond the four labels is given a generic
\* class name, as stage 2 does, instead of raising.
Model1ResultsGenericClass(three_part_probs) ==
    IF Len(three_part_probs) = 0 THEN Raised("ValueError")
    ELSE LET three_part_pred == ArgMax(three_part_probs)
         IN IF three_part_pred > Len(THREE_PARTITION_CLASSES)
            THEN Returned(
                [predicted_class |-> "class_" \o ToString(three_part_pred - 1),
                 confidence |-> three_part_probs[three_part_pred],
                 all_probabilities |-> << >>,
                 image_array |-> IMAGE_ARRAY])
            ELSE IF Len(three_part_probs) > Len(THREE_PARTITION_CLASSES)
            THEN Raised("IndexError")
            ELSE Returned(
                [predicted_class |-> THREE_PARTITION_CLASSES[three_part_pred],
                 confidence |-> three_part_probs[three_part_pred],
                 all_probabilities |-> << >>,
                 image_array |-> IMAGE_ARRAY])

\* Model1Predictor.predict from the argmax on: the predicted class, its
\* probability and the results dict.
Model1Results(three_part_probs) ==
    IF Len(three_part_probs) = 0 THEN Raised("ValueError")
    ELSE LET three_part_pred == ArgMax(three_part_probs)
         IN IF three_part_pred > Len(THREE_PARTITION_CLASSES)
            THEN Raised("IndexError")
            ELSE IF Len(three_part_probs) > Len(THREE_PARTITION_CLASSES)
            THEN Raised("IndexError")
            ELSE Returned(
                [predicted_class |-> THREE_PARTITION_CLASSES[three_part_pred],
                 confidence |-> three_part_probs[three_part_pred],
                 all_probabilities |->
                     [c \in {THREE_PARTITION_CLASSES[i] : i \in DOMAIN three_part_probs}
                         |-> three_part_probs[
                                CHOOSE i \in DOMAIN three_part_probs :
                                    THREE_PARTITION_CLASSES[i] = c]],
                 image_array |-> IMAGE_ARRAY])

\* Model1Predictor.predict: what it returns and the collaborator calls it makes.
Model1Predict(image, predictions) ==
    LET pre == preprocess_image(image)
        c0 == <<Call("preprocess_image", image)>>
        c1 == c0 \o <<Call("vit1.extract_features", pre.val)>>
        c2 == c1 \o <<Call("model1.predict", "vit_features")>>
    IN  IF pre = None THEN [ret |-> None, calls |-> c0]
        ELSE IF predictions.kind = "extract_raise"
        THEN [ret |-> Raised("ExtractorError"), calls |-> c1]
        ELSE IF predictions.kind = "raise"
        THEN [ret |-> Raised("ScorerError"), calls |-> c2]
        ELSE LET probs == ThreePartProbs(predictions)
             IN IF probs.tag = "ok"
                THEN [ret |-> Model1Results(probs.val), calls |-> c2]
                ELSE [ret |-> probs, calls |-> c2]

\* Model2Predictor.predict, the choice of malignant_probs.
MalignantProbs(predictions) ==
    CASE predictions.kind = "list" ->
            IF Len(predictions.items) >= 1 THEN Returned(predictions.items[1])
            ELSE Raised("IndexError")
      [] predictions.kind = "dict" -> Raised("KeyError")
      [] predictions.kind = "array" -> Returned(predictions.row)
      [] OTHER -> None

\* f"class_{malignant_pred}", malignant_pred counted from 0.
GenericClass(malignant_pred) == "class_" \o ToString(malignant_pred - 1)

\* Model2Predictor.predict, the name of the predicted class.
OriginalClass(malignant_probs) ==
    IF Len(malignant_probs) = Len(MALIGNANT_CLASSES)
    THEN MALIGNANT_CLASSES[ArgMax(malignant_probs)]
    ELSE GenericClass(ArgMax(malignant_probs))

\* Mutant of FinalClass: squamous cell carcinoma is not regrouped.
FinalClassTwoOnly(original_class) ==
    IF original_class \in {"actinic_keratosis", "basal_cell_carcinoma"}
    THEN "keratinocytes"
    ELSE original_class

\* Model2Predictor.predict, the grouping of the keratinocyte classes.
FinalClass(original_class) ==
    IF original_class \in Range(KERATINOCYTE_CLASSES)
    THEN "keratinocytes"
    ELSE original_class

\* Model2Predictor.predict, the dict of all probabilities.
AllProbs(malignant_probs) ==
    IF Len(malignant_probs) = Len(MALIGNANT_CLASSES)
    THEN [c \in Range(MALIGNANT_CLASSES) |->
             malignant_probs[CHOOSE i \in DOMAIN MALIGNANT_CLASSES :
                                 MALIGNANT_CLASSES[i] = c]]
    ELSE [c \in {GenericClass(i) : i \in DOMAIN malignant_probs} |->
             malignant_probs[CHOOSE i \in DOMAIN malignant_probs :
                                 GenericClass(i) = c]]

\* Model2Predictor.predict from the argmax on.
Model2Results(malignant_probs) ==
    IF Len(malignant_probs) = 0 THEN Raised("ValueError")
    ELSE LET original_class == OriginalClass(malignant_probs)
         IN Returned(
                [original_class |-> original_class,
                 final_class |-> FinalClass(original_class),
                 confidence |-> malignant_probs[ArgMax(malignant_probs)],
                 all_probabilities |-> AllProbs(malignant_probs)])

\* Model2Predictor.predict: what it returns and the collaborator calls it makes.
Model2Predict(image_array, predictions) ==
    LET c1 == <<Call("vit2.extract_features", image_array)>>
        c2 == c1 \o <<Call("model2.predict", "vit_features")>>
    IN  IF predictions.kind = "extract_raise"
        THEN [ret |-> Raised("ExtractorError"), calls |-> c1]
        ELSE IF predictions.kind = "raise"
        THEN [ret |-> Raised("ScorerError"), calls |-> c2]
        ELSE LET probs == MalignantProbs(predictions)
             IN IF probs.tag = "ok"
                THEN [ret |-> Model2Results(probs.val), calls |-> c2]
                ELSE [ret |-> probs, calls |-> c2]

----------------------------------------------------------------------------
\* f"{final_confidence * 100:.2f}%", as hundredths of a percent.
ConfidencePercentage(final_confidence) ==
    (2 * final_confidence * 10000 + Units) \div (2 * Units)

\* Mutant of FinalResults: the stage-2 results are left out of the record.
FinalResultsNoStage2(model1_results, final_prediction, final_confidence, model2_results, detailed_class) ==
    [final_prediction |-> final_prediction,
     final_confidence |-> final_confidence,
     confidence_percentage |-> ConfidencePercentage(final_confidence),
     model1_prediction |-> model1_results.predicted_class,
     model1_confidence |-> model1_results.confidence,
     model2_results |-> None,
     detailed_class |-> detailed_class,
     image_array |-> model1_results.image_array]

\* Mutant of FinalResults: the record also carries the results of stage 1.
FinalResultsWithModel1(model1_results, final_prediction, final_confidence, model2_results, detailed_class) ==
    [final_prediction |-> final_prediction,
     final_confidence |-> final_confidence,
     confidence_percentage |-> ConfidencePercentage(final_confidence),
     model1_prediction |-> model1_results.predicted_class,
     model1_confidence |-> model1_results.confidence,
     model1_results |-> model1_results,
     model2_results |-> model2_results,
     detailed_class |-> detailed_class,
     image_array |-> model1_results.image_array]

\* EnsembleSkinLesionPredictor.predict, the final_results dict.
FinalResults(model1_results, final_prediction, final_confidence, model2_results, detailed_class) ==
    [final_prediction |-> final_prediction,
     final_confidence |-> final_confidence,
     confidence_percentage |-> ConfidencePercentage(final_confidence),
     model1_prediction |-> model1_results.predicted_class,
     model1_confidence |-> model1_results.confidence,
     model2_results |-> model2_results,
     detailed_class |-> detailed_class,
     image_array |-> model1_results.image_array]

\* Mutant of Escalate: the detailed class is the class after regrouping.
EscalateDetailedIsFinal(model1_results, predictions2) ==
    LET m2 == Model2Predict(model1_results.image_array, predictions2)
    IN  IF m2.ret.tag = "ok"
        THEN [ret |-> Returned(FinalResults(model1_results,
                                            m2.ret.val.final_class,
                                            m2.ret.val.confidence,
                                            m2.ret.val,
                                            m2.ret.val.final_class)),
              calls |-> m2.calls, m2 |-> m2.ret]
        ELSE [ret |-> m2.ret, calls |-> m2.calls, m2 |-> m2.ret]

\* Mutant of Escalate: the final confidence is the mean of the two stages'.
EscalateMeanConfidence(model1_results, predictions2) ==
    LET m2 == Model2Predict(model1_results.image_array, predictions2)
    IN  IF m2.ret.tag = "ok"
        THEN [ret |-> Returned(FinalResults(model1_results,
                                            m2.ret.val.final_class,
                                            (model1_results.confidence
                                                + m2.ret.val.confidence) \div 2,
                                            m2.ret.val,
                                            m2.ret.val.original_class)),
              calls |-> m2.calls, m2 |-> m2.ret]
        ELSE [ret |-> m2.ret, calls |-> m2.calls, m2 |-> m2.ret]

\* Mutant of Escalate: a failed stage 2 falls back to the stage-1 result.
EscalateFallBack(model1_results, predictions2) ==
    LET m2 == Model2Predict(model1_results.image_array, predictions2)
    IN  IF m2.ret.tag = "ok"
        THEN [ret |-> Returned(FinalResults(model1_results,
                                            m2.ret.val.final_class,
                                            m2.ret.val.confidence,
                                            m2.ret.val,
                                            m2.ret.val.original_class)),
              calls |-> m2.calls, m2 |-> m2.ret]
        ELSE [ret |-> Returned(FinalResults(model1_results, "malignant",
                                            model1_results.confidence, None,
                                            model1_results.predicted_class)),
              calls |-> m2.calls, m2 |-> m2.ret]

\* Mutant of Escalate: the image array of stage 1 is preprocessed again and
\* stage 2 runs on the new array.
EscalateRederived(model1_results, predictions2) ==
    LET c0 == <<Call("preprocess_image", model1_results.image_array)>>
        m2 == Model2Predict("image_array_2", predictions2)
    IN  IF m2.ret.tag = "ok"
        THEN [ret |-> Returned(FinalResults(model1_results,
                                            m2.ret.val.final_class,
                                            m2.ret.val.confidence,
                                            m2.ret.val,
                                            m2.ret.val.original_class)),
              calls |-> c0 \o m2.calls, m2 |-> m2.ret]
        ELSE [ret |-> m2.ret, calls |-> c0 \o m2.calls, m2 |-> m2.ret]

\* EnsembleSkinLesionPredictor.predict, the malignant branch: stage 2 runs on
\* the image array of model1_results.
Escalate(model1_results, predictions2) ==
    LET m2 == Model2Predict(model1_results.image_array, predictions2)
    IN  IF m2.ret.tag = "ok"
        THEN [ret |-> Returned(FinalResults(model1_results,
                                            m2.ret.val.final_class,
                                            m2.ret.val.confidence,
                                            m2.ret.val,
                                            m2.ret.val.original_class)),
              calls |-> m2.calls, m2 |-> m2.ret]
        ELSE [ret |-> m2.ret, calls |-> m2.calls, m2 |-> m2.ret]

\* Mutant of Decide: benign and non-neoplastic keep their own label.
DecideNoCoarsening(model1_results, predictions2) ==
    LET predicted_class == model1_results.predicted_class
        confidence == model1_results.confidence
    IN  IF predicted_class = "malignant"
        THEN Escalate(model1_results, predictions2)
        ELSE [ret |-> Returned(FinalResults(model1_results, predicted_class,
                                            confidence, None, predicted_class)),
              calls |-> << >>, m2 |-> NotCalled]

\* Mutant of Decide: only benign and non-neoplastic end the cascade.
DecideHealthyEscalates(model1_results, predictions2) ==
    LET predicted_class == model1_results.predicted_class
        confidence == model1_results.confidence
    IN  IF predicted_class \in {"benign", "non-neoplastic"}
        THEN [ret |-> Returned(FinalResults(model1_results, "non_cancerous_lesion",
                                            confidence, None, predicted_class)),
              calls |-> << >>, m2 |-> NotCalled]
        ELSE Escalate(model1_results, predictions2)

\* EnsembleSkinLesionPredictor.predict from model1_results on: the decision
\* logic on the predicted class of stage 1.
Decide(model1_results, predictions2) ==
    LET predicted_class == model1_results.predicted_class
        confidence == model1_results.confidence
    IN  IF predicted_class \in {"benign", "non-neoplastic"}
        THEN [ret |-> Returned(FinalResults(model1_results, "non_cancerous_lesion",
                                            confidence, None, predicted_class)),
              calls |-> << >>, m2 |-> NotCalled]
        ELSE IF predicted_class = "malignant"
        THEN Escalate(model1_results, predictions2)
        ELSE [ret |-> Returned(FinalResults(model1_results, "healthy",
                                            confidence, None, predicted_class)),
              calls |-> << >>, m2 |-> NotCalled]

\* Mutant of EnsemblePredict: stage 2 is started on the image array before
\* stage 1 has returned, and its result is used when stage 1 says malignant.
EnsemblePredictSpeculative(image, predictions1, predictions2) ==
    LET m2 == Model2Predict(IMAGE_ARRAY, predictions2)
        m1 == Model1Predict(image, predictions1)
    IN  IF m1.ret.tag = "ok"
        THEN LET d == Decide(m1.ret.val, predictions2)
             IN [ret |-> d.ret, calls |-> m2.calls \o m1.calls,
                 m1 |-> m1.ret, m2 |-> m2.ret]
        ELSE [ret |-> m1.ret, calls |-> m2.calls \o m1.calls,
              m1 |-> m1.ret, m2 |-> m2.ret]

\* EnsembleSkinLesionPredictor.predict.
EnsemblePredict(image, predictions1, predictions2) ==
    LET m1 == Model1Predict(image, predictions1)
    IN  IF m1.ret.tag = "ok"
        THEN LET d == Decide(m1.ret.val, predictions2)
             IN [ret |-> d.ret, calls |-> m1.calls \o d.calls,
                 m1 |-> m1.ret, m2 |-> d.m2]
        ELSE [ret |-> m1.ret, calls |-> m1.calls, m1 |-> m1.ret, m2 |-> NotCalled]

----------------------------------------------------------------------------
\* src/main.py: the service.

VARIABLES
    pc,            \* "startup", "idle" (serving) or "responded"
    predictor,     \* the global predictor: None or the loaded ensemble
    file,          \* the upload of the request being answered
    predictions1,  \* what the general model returned for this request
    predictions2,  \* what the subtype model returned for this request
    model1_results, \* what model1_predictor.predict returned or raised
    model2_results, \* what model2_predictor.predict returned or raised
    results,       \* what predictor.predict returned or raised
    calls,         \* the collaborator calls of this request, in order
    response,      \* the HTTP response of this request
    pending        \* the bag of uploads of the handlers suspended at await file.read()

vars == <<pc, predictor, file, predictions1, predictions2, model1_results,
          model2_results, results, calls, response, pending>>

\* Requests that may be suspended at await file.read() at the same time.
MaxPending == 2

Predictor == [tag |-> "EnsembleSkinLesionPredictor"]
NoFile == [tag |-> "none"]
NoResponse == [status_code |-> 0]

\* file.content_type of a part that has no Content-Type header.
NoContentType == << >>

\* Content types of an upload, as (type, subtype).
ContentTypes == {<<"image", "jpeg">>, <<"text", "plain">>, NoContentType}

\* Mutant of IsImageType: every content type is taken for an image.
IsImageTypeAny(content_type) == TRUE

\* content_type.startswith("image/")
IsImageType(content_type) == content_type[1] = "image"

\* The uploaded bytes: not an image (Image.open raises), an RGB image whose
\* pixel data is cut short (it opens, and fails when resized), or a good image
\* (converted to RGB when it is not).
Images == {"invalid", "truncated", "ok"}

Files == [content_type : ContentTypes, image : Images]

\* Output rows used inside lists and dicts of heads.
Heads1 == {v \in Dists(Len(THREE_PARTITION_CLASSES), Units) :
              \E i \in 1..3 : v[i] = Units}
Heads2 == {v \in Dists(Len(MALIGNANT_CLASSES), Units) :
              \E i \in 1..2 : v[i] = Units}

Lists(heads) == {<< >>} \cup {<<a>> : a \in heads}
                    \cup {<<a, b>> : a \in heads, b \in heads}

HeadNames == {<< >>, <<"three_part_output">>, <<"other_output">>,
              <<"three_part_output", "other_output">>,
              <<"other_output", "three_part_output">>}

Dicts(heads) ==
    {d \in {Dict(ks, vs) : ks \in HeadNames, vs \in Lists(heads)} :
        Len(d.keys) = Len(d.vals)}

\* Everything the general scorer can do when invoked.
Predictions1 ==
    {ExtractRaise, PredictRaise, NoneRow}
        \cup {Array(v) : v \in Vectors1}
        \cup {List(vs) : vs \in Lists(Heads1)}
        \cup Dicts(Heads1)

\* Everything the subtype scorer can do when invoked.
Predictions2 ==
    {ExtractRaise, PredictRaise, NoneRow, Dict(<<"output">>, << >>)}
        \cup {Array(v) : v \in Vectors2}
        \cup {List(vs) : vs \in Lists(Heads2)}

\* CLASSES_INFO.get(final_class, {}).get('severity', 'unknown')
Severity(final_class) ==
    CASE final_class = "healthy" -> "none"
      [] final_class \in {"non_cancerous_lesion", "benign", "non-neoplastic"} -> "low"
      [] final_class = "actinic_keratosis" -> "medium"
      [] final_class \in {"malignant", "keratinocytes", "basal_cell_carcinoma",
                          "squamous_cell_carcinoma"} -> "high"
      [] final_class \in {"melanoma", "kaposi_sarcoma", "mycosis_fungoides"} -> "critical"
      [] OTHER -> "unknown"

\* http_exception_handler: the JSON of an HTTPException.
HttpError(status_code, detail) ==
    [status_code |-> status_code,
     content |-> [success |-> FALSE, error |-> detail]]

\* predict_lesion, the response dict of a prediction.
PredictionResponse(res) ==
    [status_code |-> 200,
     content |->
        [success |-> TRUE,
         prediction |-> res.final_prediction,
         confidence |-> res.final_confidence,
         confidence_percentage |-> res.confidence_percentage,
         detailed_class |-> res.detailed_class,
         severity |-> Severity(res.final_prediction),
         all_probabilities |->
            IF "model1_results" \in DOMAIN res
            THEN res.model1_results.all_probabilities
            ELSE << >>,
         model1_prediction |-> res.model1_prediction,
         model1_confidence |-> res.model1_confidence]]

\* predict_lesion from the call of predictor.predict on.
ResponseOf(ret) ==
    IF ret.tag = "ok" THEN PredictionResponse(ret.val)
    ELSE IF ret.tag = "none"
    THEN HttpError(500, "Erreur lors du traitement de l'image: 500: Erreur lors de la prediction")
    ELSE HttpError(500, "Erreur lors du traitement de l'image: " \o ret.exc)

Init ==
    /\ pc = "startup"
    /\ predictor = None
    /\ file = NoFile
    /\ predictions1 = NotInvoked
    /\ predictions2 = NotInvoked
    /\ model1_results = NotCalled
    /\ model2_results = NotCalled
    /\ results = NotCalled
    /\ calls = << >>
    /\ response = NoResponse
    /\ pending = EmptyBag

\* load_models: the startup event; the constructor loads both models or raises.
load_models ==
    /\ pc = "startup"
    /\ \E loaded \in BOOLEAN : predictor' = IF loaded THEN Predictor ELSE None
    /\ pc' = "idle"
    /\ UNCHANGED <<file, predictions1, predictions2, model1_results,
                   model2_results, results, calls, response, pending>>

\* The request ends before predictor.predict is called.
Reject(resp) ==
    /\ predictions1' = NotInvoked
    /\ predictions2' = NotInvoked
    /\ model1_results' = NotCalled
    /\ model2_results' = NotCalled
    /\ results' = NotCalled
    /\ calls' = << >>
    /\ response' = resp

\* The request reaches predictor.predict(image, show_results=False).
Serve(image, p1, p2) ==
    LET r == EnsemblePredict(image, p1, p2)
    IN  /\ predictions1' = p1
        /\ predictions2' = p2
        /\ model1_results' = r.m1
        /\ model2_results' = r.m2
        /\ results' = r.ret
        /\ calls' = r.calls
        /\ response' = ResponseOf(r.ret)

\* Stage 1 returns 'malignant', so that the subtype scorer is invoked.
Escalates(image, p1) ==
    LET m1 == Model1Predict(image, p1)
    IN  m1.ret.tag = "ok" /\ m1.ret.val.predicted_class = "malignant"

\* general_exception_handler: the JSON of an exception that is no HTTPException.
InternalError(details) ==
    [status_code |-> 500,
     content |-> [success |-> FALSE, error |-> "Erreur interne du serveur",
                  details |-> details]]

\* predict_lesion on an upload without content type: content_type is "" and
\* the type check answers 400, or it is None and startswith raises outside the
\* try block, depending on the version of the framework.
NoContentTypeResponses ==
    {HttpError(400, "Le fichier doit etre une image (JPEG, PNG, etc.)"),
     InternalError("'NoneType' object has no attribute 'startswith'")}

\* predict_lesion up to the try block, when it raises: the two checks.
Refuses(f) ==
    \/ predictor = None
    \/ f.content_type = NoContentType
    \/ ~IsImageType(f.content_type)

\* predict_lesion up to the try block: the response when one check raises.
Refuse(f) ==
    IF predictor = None
    THEN Reject(HttpError(503, "Modeles non charges. Veuillez reessayer dans quelques instants."))
    ELSE IF f.content_type = NoContentType
    THEN \E resp \in NoContentTypeResponses : Reject(resp)
    ELSE Reject(HttpError(400, "Le fichier doit etre une image (JPEG, PNG, etc.)"))

\* predict_lesion from the resumption after await file.read() on.
TryBlock(f) ==
    IF f.image = "invalid"
    THEN Reject(HttpError(500, "Erreur lors du traitement de l'image: UnidentifiedImageError"))
    ELSE IF preprocess_image(f.image) = None
    THEN Serve(f.image, NotInvoked, NotInvoked)
    ELSE \E p1 \in Predictions1 :
            IF Escalates(f.image, p1)
            THEN \E p2 \in Predictions2 : Serve(f.image, p1, p2)
            ELSE Serve(f.image, p1, NotInvoked)

\* The handlers are coroutines of one event loop: a handler runs until it
\* awaits, and predict_lesion awaits only file.read().

\* POST /predict up to await file.read(): a check raises and the request is
\* answered, or the handler is suspended and the loop runs other handlers.
predict_lesion_await ==
    /\ pc = "idle"
    /\ \E f \in Files :
          IF Refuses(f)
          THEN /\ pc' = "responded"
               /\ file' = f
               /\ Refuse(f)
               /\ UNCHANGED <<predictor, pending>>
          ELSE /\ BagCardinality(pending) < MaxPending
               /\ pending' = pending (+) SetToBag({f})
               /\ UNCHANGED <<pc, predictor, file, predictions1, predictions2,
                              model1_results, model2_results, results, calls,
                              response>>

\* POST /predict from await file.read() on: the handler of one upload is
\* resumed and runs to its response, predictor.predict being a plain call.
predict_lesion_resume ==
    /\ pc = "idle"
    /\ pc' = "responded"
    /\ UNCHANGED predictor
    /\ \E f \in BagToSet(pending) :
        /\ pending' = pending (-) SetToBag({f})
        /\ file' = f
        /\ TryBlock(f)

\* Mutant of HealthResponse: /health answers as / does.
HealthResponseOnline(p) ==
    [status_code |-> 200,
     content |-> [status |-> "online",
                  models_loaded |-> p # None,
                  version |-> "1.0.0"]]

\* health_check, the response dict.
HealthResponse(p) ==
    [status_code |-> 200,
     content |-> [status |-> IF p # None THEN "healthy" ELSE "unhealthy",
                  models_loaded |-> p # None,
                  version |-> "1.0.0"]]

\* GET /health.
health_check ==
    /\ pc = "idle"
    /\ pc' = "responded"
    /\ file' = NoFile
    /\ Reject(HealthResponse(predictor))
    /\ UNCHANGED <<predictor, pending>>

\* The response is sent; the next request finds only the global predictor and
\* the handlers that are suspended.
NextRequest ==
    /\ pc = "responded"
    /\ pc' = "idle"
    /\ file' = NoFile
    /\ predictions1' = NotInvoked
    /\ predictions2' = NotInvoked
    /\ model1_results' = NotCalled
    /\ model2_results' = NotCalled
    /\ results' = NotCalled
    /\ calls' = << >>
    /\ response' = NoResponse
    /\ UNCHANGED <<predictor, pending>>

Next ==
    \/ load_models
    \/ predict_lesion_await
    \/ predict_lesion_resume
    \/ health_check
    \/ NextRequest

Spec == Init /\ [][Next]_vars

----------------------------------------------------------------------------
\* The properties of the cascade.

\* The response is that of a POST /predict.
PredictAnswered == pc = "responded" /\ file # NoFile

\* predictor.predict returned a result record.
ClassifyReturns == results.tag = "ok"

\* Stage 1 produced a result whose predicted class is c.
Stage1Predicts(c) ==
    model1_results.tag = "ok" /\ model1_results.val.predicted_class = c

\* Stage 2 was called and produced a result.
Stage2Succeeds == model2_results.tag = "ok"

\* The subtype scorer (its feature extractor or its model) was invoked.
Scorer2Invoked ==
    \E i \in DOMAIN calls :
        calls[i].fn \in {"vit2.extract_features", "model2.predict"}

\* The distribution each stage read from its model's output.
Row1 == ThreePartProbs(predictions1).val
Row2 == MalignantProbs(predictions2).val

\* i is the lowest index of v that holds v's maximum.
IsFirstMax(v, i) ==
    /\ i \in DOMAIN v
    /\ \A j \in DOMAIN v : v[j] <= v[i]
    /\ \A j \in 1..(i - 1) : v[j] # v[i]

\* C1: in every result the cascade returns, the stage-2 result is present
\* exactly when stage 1 predicted 'malignant'; on the benign, non-neoplastic
\* and healthy paths it is absent.
C1_Stage2IffEscalate ==
    ClassifyReturns =>
        /\ (results.val.model2_results # None) <=> Stage1Predicts("malignant")
        /\ Stage1Predicts("malignant") => results.val.model2_results = model2_results.val
        /\ results.val.model1_prediction = model1_results.val.predicted_class

C1_Witness ==
    /\ ClassifyReturns
    /\ Stage1Predicts("malignant")
    /\ results.val.model2_results # None

\* C2 as claimed: when stage 1 predicts 'benign' or 'non-neoplastic' the final
\* label is "non-cancerous-lesion" and the detailed label is the stage-1 label.
C2_Original ==
    (Stage1Predicts("benign") \/ Stage1Predicts("non-neoplastic")) =>
        /\ ClassifyReturns
        /\ results.val.final_prediction = "non-cancerous-lesion"
        /\ results.val.detailed_class = model1_results.val.predicted_class

\* C2 as amended: when stage 1 predicts 'benign' or 'non-neoplastic' the final
\* label is "non_cancerous_lesion" (the key of CLASSES_INFO, distinct from both
\* 'benign' and 'non-neoplastic') and the detailed label is the stage-1 label.
C2_Amended ==
    (Stage1Predicts("benign") \/ Stage1Predicts("non-neoplastic")) =>
        /\ ClassifyReturns
        /\ results.val.final_prediction = "non_cancerous_lesion"
        /\ results.val.final_prediction \in CLASSES_INFO \ {"benign", "non-neoplastic"}
        /\ results.val.detailed_class = model1_results.val.predicted_class
        /\ results.val.detailed_class \in {"benign", "non-neoplastic"}

C2_Witness ==
    /\ Stage1Predicts("non-neoplastic")
    /\ ClassifyReturns
    /\ results.val.detailed_class = "non-neoplastic"

\* C3: when stage 1 predicts 'malignant' and stage 2 succeeds on a six-entry
\* distribution, the detailed label is the subtype label at the distribution's
\* first maximum, before regrouping, and the final label is that label
\* regrouped: "keratinocytes" for the three keratinocyte classes, the label
\* itself otherwise.
C3_DetailedThenRemapped ==
    (Stage1Predicts("malignant") /\ Stage2Succeeds) =>
        /\ ClassifyReturns
        /\ results.val.detailed_class = model2_results.val.original_class
        /\ Len(Row2) = Len(MALIGNANT_CLASSES) =>
              \E i \in DOMAIN Row2 :
                  /\ IsFirstMax(Row2, i)
                  /\ results.val.detailed_class = MALIGNANT_CLASSES[i]
        /\ results.val.final_prediction =
              IF results.val.detailed_class \in
                    {"actinic_keratosis", "basal_cell_carcinoma",
                     "squamous_cell_carcinoma"}
              THEN "keratinocytes"
              ELSE results.val.detailed_class

C3_Witness ==
    /\ Stage1Predicts("malignant")
    /\ Stage2Succeeds
    /\ Len(Row2) = Len(MALIGNANT_CLASSES)
    /\ results.val.detailed_class = "basal_cell_carcinoma"
    /\ results.val.final_prediction = "keratinocytes"

\* The maximum of a distribution.
MaxOf(v) == CHOOSE x \in Range(v) : \A y \in Range(v) : y <= x

\* C4: in every returned result the final confidence is the confidence of the
\* stage that produced the final label: the top probability of stage 1 when
\* stage 2 did not run, the top probability of stage 2 when it did.
C4_ConfidenceOfDecidingStage ==
    ClassifyReturns =>
        IF model2_results = NotCalled
        THEN /\ results.val.final_confidence = MaxOf(Row1)
             /\ results.val.final_confidence = model1_results.val.confidence
        ELSE /\ results.val.final_confidence = MaxOf(Row2)
             /\ results.val.final_confidence = model2_results.val.confidence
             /\ results.val.model1_confidence = MaxOf(Row1)

C4_Witness ==
    /\ ClassifyReturns
    /\ model2_results # NotCalled
    /\ results.val.model1_confidence = 2
    /\ results.val.final_confidence = 1

\* C5: when stage 1 predicts 'healthy' the result has final label "healthy",
\* detailed label "healthy" and no stage-2 result, and the subtype scorer is
\* not invoked.
C5_HealthyIsTerminal ==
    Stage1Predicts("healthy") =>
        /\ ClassifyReturns
        /\ results.val.final_prediction = "healthy"
        /\ results.val.detailed_class = "healthy"
        /\ results.val.model2_results = None
        /\ results.val.final_confidence = model1_results.val.confidence
        /\ model2_results = NotCalled
        /\ predictions2 = NotInvoked
        /\ ~Scorer2Invoked

C5_Witness ==
    /\ Stage1Predicts("healthy")
    /\ ClassifyReturns
    /\ results.val.final_prediction = "healthy"
    /\ calls # << >>

\* C6: the predicted label of a stage is the label at the lowest index that
\* holds the maximum of the score vector, in the order healthy, malignant,
\* benign, non-neoplastic for stage 1 and in the order of the six subtype
\* labels for stage 2, and the confidence is the value at that index.
C6_ArgmaxLowestIndex ==
    /\ model1_results.tag = "ok" =>
          \E i \in DOMAIN Row1 :
              /\ IsFirstMax(Row1, i)
              /\ model1_results.val.predicted_class =
                    <<"healthy", "malignant", "benign", "non-neoplastic">>[i]
              /\ model1_results.val.confidence = Row1[i]
    /\ (model2_results.tag = "ok" /\ Len(Row2) = Len(MALIGNANT_CLASSES)) =>
          \E i \in DOMAIN Row2 :
              /\ IsFirstMax(Row2, i)
              /\ model2_results.val.original_class = MALIGNANT_CLASSES[i]
              /\ model2_results.val.confidence = Row2[i]

\* A tie at the maximum in both stages.
C6_Witness ==
    /\ model1_results.tag = "ok"
    /\ model2_results.tag = "ok"
    /\ Len(Row1) = 4 /\ Row1[2] = Row1[3] /\ Row1[2] = MaxOf(Row1)
    /\ model1_results.val.predicted_class = "malignant"
    /\ Len(Row2) = Len(MALIGNANT_CLASSES) /\ Row2[3] = Row2[6] /\ Row2[3] = MaxOf(Row2)
    /\ model2_results.val.original_class = "kaposi_sarcoma"

\* The routing outcome the cascade took for the stage-1 label.
RoutingOutcome ==
    IF model2_results # NotCalled THEN "escalate"
    ELSE IF ClassifyReturns /\ results.val.final_prediction = "non_cancerous_lesion"
    THEN "terminal-benign"
    ELSE IF ClassifyReturns /\ results.val.final_prediction = "healthy"
    THEN "terminal-healthy"
    ELSE "none"

\* The routing table over the four general labels.
RoutingTable(c) ==
    CASE c \in {"benign", "non-neoplastic"} -> "terminal-benign"
      [] c = "malignant" -> "escalate"
      [] c = "healthy" -> "terminal-healthy"

\* The general scorer returned a row whose first maximum is at an index that
\* names none of the four general labels.
UnrecognizedLabel ==
    /\ predictions1.kind \in {"array", "list", "dict"}
    /\ ThreePartProbs(predictions1).tag = "ok"
    /\ Len(Row1) > 0
    /\ ArgMax(Row1) > Len(THREE_PARTITION_CLASSES)

\* C7: the routing decision maps benign and non-neoplastic to terminal-benign,
\* malignant to escalate and healthy to terminal-healthy; stage 1 returns no
\* other label, and a predicted index that names none of the four labels
\* raises an error that ends the request, which takes no outcome.
C7_RoutingTable ==
    /\ model1_results.tag = "ok" =>
          /\ model1_results.val.predicted_class \in Range(THREE_PARTITION_CLASSES)
          /\ RoutingOutcome = RoutingTable(model1_results.val.predicted_class)
    /\ UnrecognizedLabel =>
          /\ model1_results = Raised("IndexError")
          /\ results = Raised("IndexError")
          /\ RoutingOutcome = "none"
          /\ ~Scorer2Invoked
          /\ response.status_code = 500
          /\ ~response.content.success

C7_Witness ==
    /\ PredictAnswered
    /\ UnrecognizedLabel
    /\ results = Raised("IndexError")
    /\ response.status_code = 500

\* C8: the regrouping returns "keratinocytes" for actinic_keratosis,
\* basal_cell_carcinoma and squamous_cell_carcinoma, and returns
\* kaposi_sarcoma, melanoma and mycosis_fungoides unchanged.
C8_Remap ==
    Stage2Succeeds =>
        /\ model2_results.val.original_class \in
              {"actinic_keratosis", "basal_cell_carcinoma", "squamous_cell_carcinoma"}
              => model2_results.val.final_class = "keratinocytes"
        /\ model2_results.val.original_class \in
              {"kaposi_sarcoma", "melanoma", "mycosis_fungoides"}
              => model2_results.val.final_class = model2_results.val.original_class

C8_Witness ==
    /\ Stage2Succeeds
    /\ model2_results.val.original_class = "squamous_cell_carcinoma"
    /\ model2_results.val.final_class = "keratinocytes"

\* The general scorer call failed.
Scorer1Fails == predictions1.kind \in {"extract_raise", "raise"}

\* The general scorer returned a distribution that has not four entries.
Malformed1 ==
    /\ ThreePartProbs(predictions1).tag = "ok"
    /\ Len(Row1) # Len(THREE_PARTITION_CLASSES)

\* C9: if the general scorer call fails or returns a distribution longer or
\* shorter than the four general labels, stage 1 fails, no result is returned
\* and the subtype scorer is not invoked.
C9_Claim ==
    (Scorer1Fails \/ Malformed1) =>
        /\ model1_results.tag # "ok"
        /\ ~ClassifyReturns
        /\ ~Scorer2Invoked

\* Stage 2 was invoked and its call raised or yielded no result.
Stage2Fails == model2_results.tag \in {"raise", "none"}

\* C10: if stage 2 is invoked and its scorer call raises or yields no result,
\* the cascade returns no result: what it returns or raises is the failure of
\* stage 2, and the request is answered with an error.  No returned result
\* carries the stage-1 label 'malignant' as its final label.
C10_NoFallbackToStage1 ==
    /\ Stage2Fails =>
          /\ Stage1Predicts("malignant")
          /\ ~ClassifyReturns
          /\ results = model2_results
          /\ response.status_code = 500
          /\ response.content.success = FALSE
    /\ ClassifyReturns => results.val.final_prediction # "malignant"

C10_Witness ==
    /\ Stage2Fails
    /\ Scorer2Invoked
    /\ predictions2 = PredictRaise
    /\ results.tag = "raise"

\* The subtype scorer returned a distribution that has not six entries.
Malformed2 ==
    /\ MalignantProbs(predictions2).tag = "ok"
    /\ Len(Row2) # Len(MALIGNANT_CLASSES)

\* C11: if the subtype scorer returns a distribution whose length is not that
\* of the six subtype labels, stage 2 fails, the cascade returns no result and
\* no substitute label is invented for the entries.
C11_Claim ==
    Malformed2 =>
        /\ model2_results.tag # "ok"
        /\ ~ClassifyReturns

\* What the code does with such a distribution: the class is named class_<k>,
\* k the index of the first maximum counted from 0, and a result is returned.
C11_GenericNames ==
    (Malformed2 /\ Len(Row2) > 0) =>
        /\ Stage2Succeeds
        /\ ClassifyReturns
        /\ \E i \in DOMAIN Row2 :
              /\ IsFirstMax(Row2, i)
              /\ results.val.detailed_class = "class_" \o ToString(i - 1)
        /\ results.val.final_prediction = results.val.detailed_class

\* The display taxonomy, with the non-cancerous label in the claim's spelling
\* and in the spelling of CLASSES_INFO.
DisplayLabels ==
    {"healthy", "non-cancerous-lesion", "non_cancerous_lesion", "keratinocytes",
     "melanoma", "kaposi_sarcoma", "mycosis_fungoides"}

\* C12: every result the cascade returns has a final label in the display
\* taxonomy healthy, non-cancerous lesion, keratinocytes, melanoma,
\* kaposi_sarcoma, mycosis_fungoides, whatever the scorers returned.
C12_Claim ==
    ClassifyReturns => results.val.final_prediction \in DisplayLabels

\* C12 holds of the results whose stage 2 did not read a malformed distribution.
C12_WellFormed ==
    (ClassifyReturns /\ ~Malformed2) =>
        results.val.final_prediction \in DisplayLabels \ {"non-cancerous-lesion"}

\* The keys of a result of the cascade on its normal paths.
NormalKeys ==
    {"final_prediction", "final_confidence", "confidence_percentage",
     "model1_prediction", "model1_confidence", "model2_results",
     "detailed_class", "image_array"}

\* Stage 2 predicted a label that is none of the six subtype labels.
UnknownSubtype ==
    /\ Stage2Succeeds
    /\ model2_results.val.original_class \notin Range(MALIGNANT_CLASSES)

\* C13: when the label stage 2 predicts is none of the six subtype labels, the
\* regrouping passes it through unchanged and the returned result carries a
\* mark of being degraded, which a normal result does not carry.
C13_Claim ==
    (UnknownSubtype /\ ClassifyReturns) =>
        /\ results.val.final_prediction = model2_results.val.original_class
        /\ \E k \in DOMAIN results.val \cup DOMAIN model2_results.val :
              k \notin NormalKeys \cup
                  {"original_class", "final_class", "confidence", "all_probabilities"}

\* The part of C13 that holds: the unknown label passes through unchanged.
C13_PassThrough ==
    UnknownSubtype =>
        /\ ClassifyReturns
        /\ model2_results.val.final_class = model2_results.val.original_class
        /\ results.val.final_prediction = model2_results.val.original_class
        /\ DOMAIN results.val = NormalKeys

\* The positions in the log of the calls of fn.
CallsOf(fn) == {i \in DOMAIN calls : calls[i].fn = fn}

\* C15: on the escalate path the image is preprocessed once, by stage 1, and
\* the array that preprocessing returned is the one stage 1 scored, the one
\* the subtype scorer receives and the one the result carries: it is neither
\* derived again for stage 2 nor changed between the two scorer calls.
C15_SameRepresentation ==
    Scorer2Invoked =>
        /\ Cardinality(CallsOf("preprocess_image")) = 1
        /\ calls[1] = Call("preprocess_image", file.image)
        /\ preprocess_image(file.image).tag = "ok"
        /\ \A i \in CallsOf("vit1.extract_features") \cup CallsOf("vit2.extract_features") :
              calls[i].arg = preprocess_image(file.image).val
        /\ CallsOf("vit1.extract_features") # {}
        /\ model1_results.tag = "ok"
        /\ model1_results.val.image_array = preprocess_image(file.image).val
        /\ ClassifyReturns =>
              results.val.image_array = preprocess_image(file.image).val

C15_Witness ==
    /\ Scorer2Invoked
    /\ CallsOf("model2.predict") # {}
    /\ ClassifyReturns

\* The response is that of a prediction that succeeded.
PredictionSucceeded ==
    /\ response.status_code = 200
    /\ "prediction" \in DOMAIN response.content

\* C18: a successful response of /predict has an empty all_probabilities on
\* every path: the result of the cascade has no model1_results entry, so the
\* distribution of stage 1 does not reach the caller; prediction, confidence,
\* detailed_class, model1_prediction and model1_confidence are those of the
\* result of the cascade.
C18_AllProbabilitiesEmpty ==
    PredictionSucceeded =>
        /\ response.content.all_probabilities = << >>
        /\ ClassifyReturns
        /\ "model1_results" \notin DOMAIN results.val
        /\ model1_results.tag = "ok"
        /\ model1_results.val.all_probabilities # << >>
        /\ response.content.prediction = results.val.final_prediction
        /\ response.content.confidence = results.val.final_confidence
        /\ response.content.detailed_class = results.val.detailed_class
        /\ response.content.model1_prediction = results.val.model1_prediction
        /\ response.content.model1_confidence = results.val.model1_confidence
        /\ results.val.model1_prediction = model1_results.val.predicted_class
        /\ results.val.model1_confidence = model1_results.val.confidence

C18_Witness ==
    /\ PredictionSucceeded
    /\ Stage2Succeeds
    /\ response.content.all_probabilities = << >>
    /\ response.content.prediction = "melanoma"
    /\ response.content.model1_prediction = "malignant"

\* The response is that of a GET /health.
HealthAnswered ==
    /\ response.status_code = 200
    /\ "models_loaded" \in DOMAIN response.content

\* Nothing of the cascade ran for the request.
NoScorerInvoked ==
    /\ calls = << >>
    /\ predictions1 = NotInvoked
    /\ predictions2 = NotInvoked
    /\ results = NotCalled

\* The stage-2 calls in the log of the request.
Stage2Calls == CallsOf("vit2.extract_features") \cup CallsOf("model2.predict")

\* C14: in one request the subtype scorer is invoked at most once, after the
\* call of the general scorer, and only when stage 1 of that same request (its
\* image, the output of its general scorer call) predicted malignant, whatever
\* other requests are suspended or were answered in between.
C14_Stage2AfterOwnStage1 ==
    /\ Cardinality(CallsOf("vit2.extract_features")) <= 1
    /\ Cardinality(CallsOf("model2.predict")) <= 1
    /\ Scorer2Invoked =>
          /\ PredictAnswered
          /\ CallsOf("model1.predict") # {}
          /\ \A i \in CallsOf("model1.predict") : \A j \in Stage2Calls : i < j
          /\ model1_results = Model1Predict(file.image, predictions1).ret
          /\ Stage1Predicts("malignant")
          /\ \A j \in CallsOf("vit2.extract_features") :
                calls[j].arg = model1_results.val.image_array
    /\ (PredictAnswered /\ ~Stage1Predicts("malignant")) => ~Scorer2Invoked

\* Stage 2 ran for one request while the handler of an equal upload, which
\* reaches the scorers too, was suspended.
C14_Witness ==
    /\ Scorer2Invoked
    /\ Stage2Succeeds
    /\ BagIn(file, pending)

\* The upload has a content type, and it does not start with "image/".
NotAnImageType ==
    /\ PredictAnswered
    /\ file.content_type # NoContentType
    /\ file.content_type[1] # "image"

\* C16: a POST /predict whose content type does not start with "image/" is
\* answered 400 whether the models are loaded or not, and no scorer is invoked.
C16_Original ==
    NotAnImageType => (response.status_code = 400 /\ NoScorerInvoked)

\* C16, amended: such a request is answered 400 when the predictor is loaded
\* and 503 when it is not, and no scorer is invoked; an upload without any
\* content type is answered 400 or 500 when the predictor is loaded, 503 when
\* it is not, and no scorer is invoked either.
C16_Amended ==
    /\ NotAnImageType =>
          /\ response.status_code = IF predictor = None THEN 503 ELSE 400
          /\ NoScorerInvoked
    /\ (PredictAnswered /\ file.content_type = NoContentType) =>
          /\ response.status_code \in IF predictor = None THEN {503} ELSE {400, 500}
          /\ NoScorerInvoked

C16_Witness ==
    /\ NotAnImageType
    /\ predictor = Predictor
    /\ response.status_code = 400
    /\ file.image = "ok"

\* The answers while the predictor is not loaded, and the answer of /health.
C17_Answers ==
    /\ (PredictAnswered /\ predictor = None) =>
          (response.status_code = 503 /\ NoScorerInvoked)
    /\ HealthAnswered =>
          /\ response.content.status =
                IF predictor = None THEN "unhealthy" ELSE "healthy"
          /\ response.content.models_loaded = (predictor # None)

\* C17: while the predictor is not loaded every POST /predict is answered 503
\* without a scorer call and /health reports unhealthy, models_loaded false;
\* once loaded the predictor stays loaded, and /health reports healthy,
\* models_loaded true.
C17_LoadedForGood ==
    /\ []C17_Answers
    /\ [][predictor # None => predictor' = predictor]_vars
    /\ [][pc # "startup" => predictor' = predictor]_vars

C17_Witness ==
    /\ HealthAnswered
    /\ predictor = Predictor
    /\ response.content.status = "healthy"
    /\ response.content.models_loaded

====
